---- MODULE Spec2Model ----
(***************************************************************************)
(* NTAG 424 DNA provisioning tool (nfc_cyberpunk_gui_v72.py).              *)
(*                                                                         *)
(* The programmer object keeps one set of session fields.  Every tag       *)
(* operation is a Tk button handler.  log_message() calls                  *)
(* console.update(), which dispatches pending button events, so a second   *)
(* handler can run to completion in the middle of a first one: the         *)
(* handlers in progress form a call stack, and only the top one runs.      *)
(* The tag and the reader are a black box: every transmit is answered by   *)
(* any status word, or raises.                                             *)
(***************************************************************************)
EXTENDS Integers, Sequences, FiniteSets, TLC

VARIABLES
    session_key_enc,   \* self.session_key_enc
    session_key_mac,   \* self.session_key_mac
    ti,                \* self.ti
    cmd_counter,       \* self.cmd_counter
    rnd_a,             \* self.rnd_a
    rnd_b,             \* self.rnd_b
    authenticated,     \* self.authenticated
    stack,             \* the handlers in progress, innermost last
    started,           \* how many handlers have been dispatched so far
    nonces,            \* how many fresh nonces have been drawn so far
    sentCount,         \* history: protected commands sent since the last successful authentication
    sentMacs,          \* history: the protected commands put on the wire, with the session and counter of their MAC
    hsConn             \* history: depth of the handler whose connection holds a completed handshake, 0 if none

sessVars == <<session_key_enc, session_key_mac, ti, cmd_counter, rnd_a, rnd_b, authenticated>>
histVars == <<started, nonces, sentCount, sentMacs, hsConn>>
vars == <<session_key_enc, session_key_mac, ti, cmd_counter, rnd_a, rnd_b, authenticated,
          stack, started, nonces, sentCount, sentMacs, hsConn>>

---------------------------------------------------------------------------
(* Bounds of the model *)

\* handlers that can be in progress at once (1 = no re-entrancy)
MaxDepth == 2
\* handlers dispatched in one run
MaxOps == 2
\* payload lengths and chunk sizes of the stand-alone write plans
MaxPlanLen == 7
MaxPlanChunk == 3
\* how far above the shortest text the contents of the encoder runs go
MaxNdefExtra == 12
\* the CMAC values, plaintext lengths the crypto utilities are run on
MaxMacSlope == 8
MaxMacShift == 7
MaxPlain == 33

---------------------------------------------------------------------------
(* Program constants *)

SW1_ISO == 144          \* 0x90
SW1_NATIVE == 145       \* 0x91
SW2_OK == 0             \* 0x00
SW2_MORE == 175         \* 0xAF
SW2_AUTH_ERR == 174     \* 0xAE
SW2_WARN == 1           \* a non-zero second status byte after 0x90
CMD_GET_SETTINGS == 245 \* 0xF5
CMD_WRITE == 141        \* 0x8D
NDEF_FILE_NO == 2
FILE_CAPACITY == 256
SINGLE_WRITE_MAX == 32
AUTH_CHUNK == 32
ISO_CHUNK == 54
SHORT_RECORD_MAX == 255
MIME_LEN == 12          \* len(b'text/x-vcard')
UID_LEN_424 == 7
COUNTER_MOD == 65536    \* struct.pack('<H', cmd_counter)
SETTINGS_FILES == 3     \* for f in [0x01, 0x02, 0x03]
\* shortest texts the form can produce
MIN_URL_BYTES == 45     \* "newredcard.com/verify.html?uid=" + 14 hex digits
MIN_VCARD_BYTES == 47   \* BEGIN:VCARD, VERSION:3.0, FN:Contact, END:VCARD joined by CRLF
BIG_VCARD_BYTES == 300
\* read_ndef_file asks for 0x80 bytes; program_card writes prefix code 0x04
READ_LEN == 128
URI_PREFIX_CODE == 4
\* the AES block: len(full_mac), the padding unit and len(iv)
AES_BLOCK == 16

Min(a, b) == IF a < b THEN a ELSE b

---------------------------------------------------------------------------
(* Values *)

NoSW == <<0, 0>>
NoKey == [kind |-> "none", key |-> "none", a |-> 0, b |-> 0]
NoMac == [key |-> NoKey, ti |-> 0, ctr |-> 0, cmd |-> 0, params |-> <<>>, input |-> <<>>]
NoReport == [msg |-> "none", off |-> 0]

\* the status words the tag answers with: to an ISO 7816 command (select,
\* update binary, get UID) and to a native command wrapped in 90 xx
IsoStatuses == { <<SW1_ISO, SW2_OK>>, <<SW1_ISO, SW2_WARN>>, <<SW1_NATIVE, SW2_AUTH_ERR>> }
NativeStatuses == { <<SW1_NATIVE, SW2_OK>>, <<SW1_NATIVE, SW2_MORE>>, <<SW1_NATIVE, SW2_AUTH_ERR>> }

\* what conn.transmit can do with a command: return the tag's status, or
\* raise after the command went out (the reply never arrives)
Outcomes(statuses) == [kind : {"reply"}, sw : statuses] \cup { [kind |-> "raise", sw |-> NoSW] }

\* struct.pack('<H', v)
PackLittleH(v) == << v % 256, (v \div 256) % 256 >>

\* the long-term key of the key entry field
AuthKey == "entry_key"

aes_cmac(key, data) == [kind |-> data.kind, key |-> key, a |-> data.a, b |-> data.b]

derive_session_keys(key, ra, rb, t) ==
    <<aes_cmac(key, [kind |-> "enc", a |-> ra, b |-> rb]),
      aes_cmac(key, [kind |-> "mac", a |-> ra, b |-> rb])>>

calculate_mac_for_cmd(key_mac, t, counter, cmd, cmd_data) ==
    [key |-> key_mac, ti |-> t, ctr |-> counter % COUNTER_MOD, cmd |-> cmd, params |-> cmd_data,
     input |-> <<cmd>> \o PackLittleH(counter % COUNTER_MOD) \o <<t>> \o cmd_data]

\* data[off : off + len] of the NDEF message, as the write functions are
\* handed it: plaintext, under no key
PlainSlice(off, len) == [enc |-> FALSE, key |-> NoKey, off |-> off, len |-> len]

\* parameters whose data went through the session encryption key first
WriteParams_Encrypted(file_no, offset, data) ==
    << file_no, offset, data.len, [data EXCEPT !.enc = TRUE, !.key = session_key_enc] >>
\* params = bytes([file_no]) + offset_bytes + length_bytes + data
WriteParams(file_no, offset, data) == << file_no, offset, data.len, data >>

\* a protected command as the tag saw it: the MAC's session and counter,
\* and what became of the command
OnWire(mac, o) ==
    [key |-> mac.key, ti |-> mac.ti, ctr |-> mac.ctr, cmd |-> mac.cmd,
     res |-> IF o.kind = "raise" THEN "lost"
             ELSE IF o.sw = <<SW1_NATIVE, SW2_OK>> THEN "ok" ELSE "rejected"]

Session == [enc |-> session_key_enc, mac |-> session_key_mac, ti |-> ti,
            ctr |-> cmd_counter, auth |-> authenticated]
NoSession == [enc |-> NoKey, mac |-> NoKey, ti |-> 0, ctr |-> 0, auth |-> FALSE]

---------------------------------------------------------------------------
(* The conditions of the code *)

SelectOk(sw) == sw[1] = SW1_ISO
\* "return False" after "Auth Part 1 failed" and after "Auth Part 2 failed"
Part1FailureResult == FALSE
Part2FailureResult == FALSE
\* the outcome program_card reports when success is True: the same banner
\* and message box after strategy 1 and after the fallback
ProvisionedOutcome(viaFallback) == "success"
\* a part-1 check that looks at the first status byte only
Part1Ok_Sw1Only(sw) == sw[1] = SW1_NATIVE
Part1Ok(sw) == sw[1] = SW1_NATIVE /\ sw[2] = SW2_MORE
Part2Ok(sw) == sw[1] = SW1_NATIVE /\ sw[2] = SW2_OK
ProtectedOk(sw) == sw[1] = SW1_NATIVE /\ sw[2] = SW2_OK
IsoOk(sw) == sw[1] = SW1_ISO
UidOk(sw) == sw[1] = SW1_ISO

\* the offset argument of write_data_iso_update(conn, 0, ndef_data)
FallbackOffset(total) == 0

\* a chunk length that is not clipped at the end of the data
ChunkLen_NoClip(len, total, chunk_size) == chunk_size
\* len(data[total:total + chunk_size])
ChunkLen(len, total, chunk_size) == Min(chunk_size, len - total)

\* a loop that does not look at the position
LoopContinues_Always(total, len) == TRUE
\* while total < len(data)
LoopContinues(total, len) == total < len

\* a chunk loop that carries on after a rejected chunk
ChunkedAborts_Never(rv) == FALSE
\* if not self.write_data_plain_with_mac(...): return False
ChunkedAborts(rv) == ~rv

\* a strategy 2 that runs whatever strategy 1 returned
NeedFallback_Always(success) == TRUE
\* if not success: (strategy 2)
NeedFallback(success) == ~success

\* if len(ndef_data) <= 32
SingleWrite(len) == len <= SINGLE_WRITE_MAX

\* len(ndef_rec) as program_card builds it
RecLen(mode, n) ==
    IF mode = "url"
    THEN (IF n + 1 <= SHORT_RECORD_MAX THEN 5 + n ELSE 8 + n)
    ELSE (IF n <= SHORT_RECORD_MAX THEN 3 + MIME_LEN + n ELSE 6 + MIME_LEN + n)

\* len(ndef_data) before the size check
NdefLen(mode, n) == 2 + RecLen(mode, n)

\* ndef_data after "if len(ndef_data) > 256: ndef_data = ndef_data[:256]"
Truncate(len) == IF len > FILE_CAPACITY THEN FILE_CAPACITY ELSE len

\* the texts the form can hold when program_card reads it
ContentLens(mode) == IF mode = "url" THEN {MIN_URL_BYTES} ELSE {MIN_VCARD_BYTES, BIG_VCARD_BYTES}

---------------------------------------------------------------------------
(* NDEF encoding, byte by byte *)

\* struct.pack('>H', v) and struct.pack('>I', v)
PackH(v) == << (v \div 256) % 256, v % 256 >>
PackI(v) == << (v \div 16777216) % 256, (v \div 65536) % 256, (v \div 256) % 256, v % 256 >>

RECURSIVE BigEndian(_)
\* the number a big-endian byte string stands for
BigEndian(bs) ==
    IF bs = <<>> THEN 0 ELSE 256 * BigEndian(SubSeq(bs, 1, Len(bs) - 1)) + bs[Len(bs)]

\* b'U' and b'text/x-vcard'
UriType == << 85 >>
MimeType == << 116, 101, 120, 116, 47, 120, 45, 118, 99, 97, 114, 100 >>

\* a record: flags byte, type-length byte, the bytes of the payload-length
\* field, the type, and the number of payload bytes
NoRecord == [flags |-> 0, tlen |-> 0, plen |-> <<>>, type |-> <<>>, payload |-> 0]

\* program_card, URL mode: D1 01 len 55 04 url, or C1 01 len(4) 55 04 url;
\* the payload is the prefix byte 04 and the url
UriRecord(n) ==
    LET payload_len == n + 1
    IN  IF payload_len <= SHORT_RECORD_MAX
        THEN [flags |-> 209, tlen |-> 1, plen |-> <<payload_len>>, type |-> UriType,
              payload |-> 1 + n]
        ELSE [flags |-> 193, tlen |-> 1, plen |-> PackI(payload_len), type |-> UriType,
              payload |-> 1 + n]

\* program_card, vCard mode: D2 0C len mime vcard, or C2 0C len(4) mime vcard
VcardRecord(n) ==
    IF n <= SHORT_RECORD_MAX
    THEN [flags |-> 210, tlen |-> Len(MimeType), plen |-> <<n>>, type |-> MimeType,
          payload |-> n]
    ELSE [flags |-> 194, tlen |-> Len(MimeType), plen |-> PackI(n), type |-> MimeType,
          payload |-> n]

\* program_ntag_simple: bytes([0xD2, len(mime), len(vcard_bytes)]) + mime +
\* vcard_bytes; bytes() raises ValueError on a value over 255, and then
\* there is no record
NtagRecord(n) ==
    IF n > SHORT_RECORD_MAX
    THEN NoRecord
    ELSE [flags |-> 210, tlen |-> Len(MimeType), plen |-> <<n>>, type |-> MimeType,
          payload |-> n]

\* len(ndef_rec)
RecordBytes(rec) == 2 + Len(rec.plen) + Len(rec.type) + rec.payload

---------------------------------------------------------------------------
(* URI text.  A text is a sequence of pieces; a piece is one of the prefix
   strings of the URI record type, or a run of n bytes of other characters
   (what urllib.parse.urlencode leaves of the query, and the host and path
   of base_url).  Two texts are the same string exactly when they are the
   same sequence of pieces. *)

SchemeHttps == [s |-> "https://", n |-> 8]
TextRun(k) == [s |-> "text", n |-> k]

\* generate_url: f"{base_url}?{query_string}", base_url = "https://newredcard.com/verify.html";
\* k bytes follow the scheme
GeneratedUrl(k) == << SchemeHttps, TextRun(k) >>

\* url.replace("https://", ""): every occurrence goes, not only the first
StripHttps(url) == SelectSeq(url, LAMBDA p : p.s # "https://")

RECURSIVE TextBytes(_)
\* len(text.encode('utf-8'))
TextBytes(text) == IF text = <<>> THEN 0 ELSE Head(text).n + TextBytes(Tail(text))

RECURSIVE TakeBytes(_, _)
\* text[:k], counted in bytes
TakeBytes(text, k) ==
    IF text = <<>> \/ k <= 0 THEN <<>>
    ELSE IF Head(text).n <= k
         THEN <<Head(text)>> \o TakeBytes(Tail(text), k - Head(text).n)
         ELSE << [Head(text) EXCEPT !.n = k] >>

\* prefixes.get(prefix_code, "") in read_ndef_file
UriPrefixes(code) ==
    CASE code = 1 -> << [s |-> "http://www.", n |-> 11] >>
      [] code = 2 -> << [s |-> "https://www.", n |-> 12] >>
      [] code = 3 -> << [s |-> "http://", n |-> 7] >>
      [] code = 4 -> << SchemeHttps >>
      [] OTHER -> <<>>

\* read_ndef_file, from "nlen = (data[0] << 8) | data[1]" to "full_url = ...":
\* data is what the tag returned (the first dataLen bytes of the file, which
\* holds prefix, the record rec and its payload: the byte pcode and body)
ParseUri(dataLen, prefix, rec, pcode, body) ==
    LET nlen == BigEndian(prefix)
        msgLen == Min(nlen, dataLen - 2)
        sr == (rec.flags \div 16) % 2
        type_len == rec.tlen
        payload_len == IF sr = 1 THEN rec.plen[1] ELSE BigEndian(rec.plen)
        type_start == IF sr = 1 THEN 3 ELSE 6
        payload_start == type_start + type_len
        payloadBytes == Min(payload_len, msgLen - payload_start)
        prefix_code == IF payloadBytes >= 1 THEN pcode ELSE 0
        url_part == IF payloadBytes > 1 THEN TakeBytes(body, payloadBytes - 1) ELSE <<>>
    IN  UriPrefixes(prefix_code) \o url_part

---------------------------------------------------------------------------
(* Handler frames *)

Ops == {"program_card", "test_auth_only", "debug_read_settings", "read_ndef_file"}

NewFrame(op) ==
    [ op |-> op, pc |-> "connect", ret |-> "none", wret |-> "none", rv |-> FALSE,
      conn |-> "none", sw |-> NoSW, appSel |-> "none",
      auth_success |-> FALSE, success |-> FALSE,
      mode |-> "none", rawLen |-> 0, len |-> 0,
      chunk_size |-> 0, total |-> 0, pos |-> 0, woff |-> 0, wlen |-> 0,
      mac |-> NoMac, snap |-> NoSession,
      fidx |-> 0,
      hs |-> <<>>, failed |-> "none", last |-> "none", blocks |-> 0,
      issuedAuth |-> <<>>, issuedIso |-> <<>>,
      s1 |-> "none", fbDecided |-> FALSE, fbRuns |-> 0, fbFailed |-> FALSE, txAtFbFail |-> 0,
      n |-> 0, rec |-> NoRecord, prefix |-> <<>>, written |-> 0,
      url |-> <<>>, pcode |-> 0, body |-> <<>>, full_url |-> <<>>,
      report |-> NoReport, outcome |-> "none", tx |-> 0 ]

Depth == Len(stack)
Top == stack[Len(stack)]
SetTop(f) == [stack EXCEPT ![Len(stack)] = f]
Running(pc) == Len(stack) > 0 /\ stack[Len(stack)].pc = pc

\* an exception leaves the function it was raised in and lands in the
\* handler's "except Exception" clause
Raise(f) == [f EXCEPT !.pc = "except", !.sw = NoSW, !.appSel = "none", !.hs = <<>>, !.failed = "none",
                       !.mac = NoMac, !.snap = NoSession, !.ret = "none", !.wret = "none"]

\* The places where the running handler stands in front of a log_message
\* call and still has a command to send or a session field to read or write
\* afterwards.  (A handler dispatched from a log_message call after which
\* the running handler only disconnects and returns behaves like one
\* dispatched after it returned.)
ReentryPcs == { "sel_send", "sel_sent", "auth_p1_send", "auth_p1_sent",
                "auth_p2_send", "auth_p2_sent", "auth_ok",
                "gs_send", "gs_sent", "gs_ok", "wp_send", "wp_sent", "ch_loop",
                "iso_sel", "rn_send" }

Init ==
    /\ session_key_enc = NoKey
    /\ session_key_mac = NoKey
    /\ ti = 0
    /\ cmd_counter = 0
    /\ rnd_a = 0
    /\ rnd_b = 0
    /\ authenticated = FALSE
    /\ stack = <<>>
    /\ started = 0
    /\ nonces = 0
    /\ sentCount = 0
    /\ sentMacs = {}
    /\ hsConn = 0

---------------------------------------------------------------------------
(* Dispatch of button handlers *)

\* the event loop dispatches a button click while no handler is running
StartOp ==
    /\ stack = <<>>
    /\ started < MaxOps
    /\ \E op \in Ops : stack' = <<NewFrame(op)>>
    /\ started' = started + 1
    /\ UNCHANGED <<sessVars, nonces, sentCount, sentMacs, hsConn>>

\* console.update() inside log_message dispatches a button click
Reenter ==
    /\ Len(stack) > 0
    /\ Len(stack) < MaxDepth
    /\ started < MaxOps
    /\ Top.pc \in ReentryPcs
    /\ \E op \in Ops : stack' = Append(stack, NewFrame(op))
    /\ started' = started + 1
    /\ UNCHANGED <<sessVars, nonces, sentCount, sentMacs, hsConn>>

\* the handler returns to the event loop (or to the update() that dispatched it)
Return ==
    /\ Running("done")
    /\ stack' = SubSeq(stack, 1, Len(stack) - 1)
    /\ hsConn' = IF hsConn = Len(stack) THEN 0 ELSE hsConn
    /\ UNCHANGED <<sessVars, started, nonces, sentCount, sentMacs>>

\* readers(), createConnection(), connect()
Connect ==
    /\ Running("connect")
    /\ \E res \in {"ok", "no_reader", "raise"} :
         stack' = SetTop(
            CASE res = "ok" ->
                   [Top EXCEPT !.conn = "open",
                               !.pc = IF Top.op = "program_card" THEN "pc_uid" ELSE "sel_send",
                               !.ret = CASE Top.op = "test_auth_only" -> "ta_selected"
                                         [] Top.op = "debug_read_settings" -> "dr_selected"
                                         [] Top.op = "read_ndef_file" -> "rn_selected"
                                         [] OTHER -> "none"]
              [] res = "no_reader" -> [Top EXCEPT !.pc = "done", !.outcome = "failure"]
              [] OTHER -> Raise(Top))
    /\ UNCHANGED <<sessVars, histVars>>

\* except Exception as e: log_message(...)
Except ==
    /\ Running("except")
    /\ stack' = SetTop([Top EXCEPT !.pc = "done", !.outcome = "failure"])
    /\ UNCHANGED <<sessVars, histVars>>

\* conn.disconnect()
Disconnect ==
    /\ Len(stack) > 0
    /\ Top.pc \in {"pc_disc", "ta_disc", "dr_disc", "rn_disc", "pc_nocard", "pc_ntag_disc"}
    /\ stack' = SetTop([Top EXCEPT !.conn = "closed", !.pc = "done",
                                   !.outcome = IF Top.pc = "pc_nocard" THEN "failure" ELSE @])
    /\ hsConn' = IF hsConn = Len(stack) THEN 0 ELSE hsConn
    /\ UNCHANGED <<sessVars, started, nonces, sentCount, sentMacs>>

---------------------------------------------------------------------------
(* select_ndef_app *)

\* send_apdu(conn, SELECT D2760000850101)
SelectTransmit ==
    /\ Running("sel_send")
    /\ \E o \in Outcomes(IsoStatuses) :
         /\ stack' = SetTop(
               IF o.kind = "reply"
               THEN [Top EXCEPT !.pc = "sel_sent", !.sw = o.sw, !.tx = @ + 1,
                                !.last = "select_app"]
               ELSE [Raise(Top) EXCEPT !.tx = @ + 1])
         \* a select that reached the tag ends whatever handshake the tag held
    /\ hsConn' = 0
    /\ UNCHANGED <<sessVars, started, nonces, sentCount, sentMacs>>

\* a select that also sets the counter back
SelectReturn_ResetsCounter ==
    /\ Running("sel_sent")
    /\ authenticated' = FALSE
    /\ cmd_counter' = 0
    /\ stack' = SetTop([Top EXCEPT !.pc = Top.ret, !.ret = "none",
                                   !.rv = SelectOk(Top.sw), !.sw = NoSW,
                                   !.appSel = IF SelectOk(Top.sw) THEN "ok" ELSE "failed"])
    /\ UNCHANGED <<session_key_enc, session_key_mac, ti, rnd_a, rnd_b, histVars>>

\* a select that gives up the session only when the tag accepts it
SelectReturn_KeepsSessionOnFailure ==
    /\ Running("sel_sent")
    /\ authenticated' = (authenticated /\ ~SelectOk(Top.sw))
    /\ stack' = SetTop([Top EXCEPT !.pc = Top.ret, !.ret = "none",
                                   !.rv = SelectOk(Top.sw), !.sw = NoSW,
                                   !.appSel = IF SelectOk(Top.sw) THEN "ok" ELSE "failed"])
    /\ UNCHANGED <<session_key_enc, session_key_mac, ti, cmd_counter, rnd_a, rnd_b, histVars>>

\* self.authenticated = False; return sw1 == 0x90.  appSel keeps what the
\* select returned for as long as the caller's commands rely on it, whether
\* or not the caller looks at it.
SelectReturn ==
    /\ Running("sel_sent")
    /\ authenticated' = FALSE
    /\ stack' = SetTop([Top EXCEPT !.pc = Top.ret, !.ret = "none",
                                   !.rv = SelectOk(Top.sw), !.sw = NoSW,
                                   !.appSel = IF SelectOk(Top.sw) THEN "ok" ELSE "failed"])
    /\ UNCHANGED <<session_key_enc, session_key_mac, ti, cmd_counter, rnd_a, rnd_b, histVars>>

---------------------------------------------------------------------------
(* ev2_authenticate *)

\* send_apdu(conn, 90 71 ...)
AuthPart1Transmit ==
    /\ Running("auth_p1_send")
    /\ \E o \in Outcomes(NativeStatuses) :
         /\ stack' = SetTop(
               IF o.kind = "reply"
               THEN [Top EXCEPT !.pc = "auth_p1_sent", !.sw = o.sw, !.tx = @ + 1,
                                !.hs = <<[cmd |-> "auth1", sw |-> o.sw, after |-> Top.last]>>,
                                !.last = "auth1"]
               ELSE [Raise(Top) EXCEPT !.tx = @ + 1])
    /\ UNCHANGED <<sessVars, histVars>>

\* if sw1 != 0x91 or sw2 != 0xAF: return False; else rnd_b, rnd_a
AuthPart1Check ==
    /\ Running("auth_p1_sent")
    /\ IF Part1Ok(Top.sw)
       THEN /\ nonces' = nonces + 1
            /\ rnd_b' = nonces + 1
            /\ rnd_a' = nonces + 1
            /\ stack' = SetTop([Top EXCEPT !.pc = "auth_p2_send"])
       ELSE /\ stack' = SetTop([Top EXCEPT !.pc = "auth_fail", !.failed = "part1"])
            /\ UNCHANGED <<nonces, rnd_a, rnd_b>>
    /\ UNCHANGED <<session_key_enc, session_key_mac, ti, cmd_counter, authenticated,
                   started, sentCount, sentMacs, hsConn>>

\* send_apdu(conn, 90 AF ...)
AuthPart2Transmit ==
    /\ Running("auth_p2_send")
    /\ \E o \in Outcomes(NativeStatuses) :
         stack' = SetTop(
               IF o.kind = "reply"
               THEN [Top EXCEPT !.pc = "auth_p2_sent", !.sw = o.sw, !.tx = @ + 1,
                                !.hs = Append(@, [cmd |-> "auth2", sw |-> o.sw, after |-> Top.last]),
                                !.last = "auth2"]
               ELSE [Raise(Top) EXCEPT !.tx = @ + 1])
    /\ UNCHANGED <<sessVars, histVars>>

\* if sw1 != 0x91 or sw2 != 0x00: return False; else ti, session keys,
\* cmd_counter = 0, authenticated = True
AuthPart2Check ==
    /\ Running("auth_p2_sent")
    /\ IF Part2Ok(Top.sw)
       THEN /\ ti' = rnd_b
            /\ session_key_enc' = derive_session_keys(AuthKey, rnd_a, rnd_b, rnd_b)[1]
            /\ session_key_mac' = derive_session_keys(AuthKey, rnd_a, rnd_b, rnd_b)[2]
            /\ cmd_counter' = 0
            /\ authenticated' = TRUE
            /\ sentCount' = 0
            /\ hsConn' = Len(stack)
            /\ stack' = SetTop([Top EXCEPT !.pc = "auth_ok"])
       ELSE /\ stack' = SetTop([Top EXCEPT !.pc = "auth_fail", !.failed = "part2"])
            /\ UNCHANGED <<session_key_enc, session_key_mac, ti, cmd_counter,
                           authenticated, sentCount, hsConn>>
    /\ UNCHANGED <<rnd_a, rnd_b, started, nonces, sentMacs>>

\* log_message("Auth Part N failed"); return False
AuthFail ==
    /\ Running("auth_fail")
    /\ stack' = SetTop([Top EXCEPT !.pc = Top.ret, !.ret = "none",
                                   !.rv = IF Top.failed = "part1" THEN Part1FailureResult
                                          ELSE Part2FailureResult,
                                   !.sw = NoSW, !.hs = <<>>])
    /\ UNCHANGED <<sessVars, histVars>>

\* log_message("Authenticated"); return True
AuthOk ==
    /\ Running("auth_ok")
    /\ stack' = SetTop([Top EXCEPT !.pc = Top.ret, !.ret = "none", !.rv = TRUE,
                                   !.sw = NoSW, !.hs = <<>>])
    /\ UNCHANGED <<sessVars, histVars>>

---------------------------------------------------------------------------
(* get_file_settings *)

\* the for loop of debug_read_settings moves to the next file
NextFile(f) ==
    IF f.fidx < SETTINGS_FILES
    THEN [f EXCEPT !.fidx = @ + 1, !.pc = "gs_enter", !.sw = NoSW,
                   !.mac = NoMac, !.snap = NoSession]
    ELSE [f EXCEPT !.pc = "dr_disc", !.sw = NoSW, !.mac = NoMac, !.snap = NoSession]

\* if not self.authenticated: return None; else the MAC and the APDU
GetSettingsEnter ==
    /\ Running("gs_enter")
    /\ stack' = SetTop(
          IF ~authenticated
          THEN NextFile(Top)
          ELSE [Top EXCEPT !.pc = "gs_send", !.snap = Session,
                           !.mac = calculate_mac_for_cmd(session_key_mac, ti, cmd_counter,
                                                         CMD_GET_SETTINGS, <<Top.fidx>>)])
    /\ UNCHANGED <<sessVars, histVars>>

\* send_apdu(conn, 90 F5 ...)
GetSettingsTransmit ==
    /\ Running("gs_send")
    /\ \E o \in Outcomes(NativeStatuses) :
         /\ stack' = SetTop(
               IF o.kind = "reply"
               THEN [Top EXCEPT !.pc = "gs_sent", !.sw = o.sw, !.tx = @ + 1, !.last = "get_settings"]
               ELSE [Raise(Top) EXCEPT !.tx = @ + 1])
         /\ sentMacs' = sentMacs \cup {OnWire(Top.mac, o)}
    /\ sentCount' = sentCount + 1
    /\ UNCHANGED <<sessVars, started, nonces, hsConn>>

\* self.cmd_counter += 1; the settings are logged when the reply is 91 00
\* with at least 4 bytes
GetSettingsFinish ==
    /\ Running("gs_sent")
    /\ cmd_counter' = cmd_counter + 1
    /\ \E long \in BOOLEAN :
         stack' = SetTop(
            IF ProtectedOk(Top.sw) /\ long
            THEN [Top EXCEPT !.pc = "gs_ok", !.sw = NoSW]
            ELSE NextFile(Top))
    /\ UNCHANGED <<session_key_enc, session_key_mac, ti, rnd_a, rnd_b, authenticated, histVars>>

\* log_message("File ..."); return r[1]
GetSettingsLogged ==
    /\ Running("gs_ok")
    /\ stack' = SetTop(NextFile(Top))
    /\ UNCHANGED <<sessVars, histVars>>

---------------------------------------------------------------------------
(* write_data_plain_with_mac *)

\* if not self.authenticated: return False; else the MAC and the APDU
WritePlainEnter ==
    /\ Running("wp_enter")
    /\ stack' = SetTop(
          IF ~authenticated
          THEN [Top EXCEPT !.pc = Top.wret, !.wret = "none", !.rv = FALSE]
          ELSE [Top EXCEPT !.pc = "wp_send", !.snap = Session,
                           !.mac = calculate_mac_for_cmd(session_key_mac, ti, cmd_counter,
                                      CMD_WRITE,
                                      WriteParams(NDEF_FILE_NO, Top.woff,
                                                  PlainSlice(Top.woff, Top.wlen)))])
    /\ UNCHANGED <<sessVars, histVars>>

\* send_apdu(conn, 90 8D ...)
WritePlainTransmit ==
    /\ Running("wp_send")
    /\ \E o \in Outcomes(NativeStatuses) :
         /\ stack' = SetTop(
               LET sent == [off |-> Top.mac.params[2], len |-> Top.mac.params[3],
                            ctr |-> Top.mac.ctr, key |-> Top.mac.key,
                            acked |-> o.kind = "reply" /\ ProtectedOk(o.sw)]
               IN  IF o.kind = "reply"
                   THEN [Top EXCEPT !.pc = "wp_sent", !.sw = o.sw, !.tx = @ + 1,
                                    !.last = "write",
                                    !.issuedAuth = Append(@, sent)]
                   ELSE [Raise(Top) EXCEPT
                            !.tx = @ + 1,
                            !.issuedAuth = Append(@, sent)])
         /\ sentMacs' = sentMacs \cup {OnWire(Top.mac, o)}
    /\ sentCount' = sentCount + 1
    /\ UNCHANGED <<sessVars, started, nonces, hsConn>>

\* a write that drops the session when the tag rejects it
WritePlainFinish_ClosesSession ==
    /\ Running("wp_sent")
    /\ cmd_counter' = cmd_counter + 1
    /\ authenticated' = (authenticated /\ ProtectedOk(Top.sw))
    /\ stack' = SetTop([Top EXCEPT !.pc = Top.wret, !.wret = "none",
                                   !.rv = ProtectedOk(Top.sw), !.sw = NoSW,
                                   !.mac = NoMac, !.snap = NoSession])
    /\ UNCHANGED <<session_key_enc, session_key_mac, ti, rnd_a, rnd_b, histVars>>

\* self.cmd_counter += 1; return sw1 == 0x91 and sw2 == 0x00
WritePlainFinish ==
    /\ Running("wp_sent")
    /\ cmd_counter' = cmd_counter + 1
    /\ stack' = SetTop([Top EXCEPT !.pc = Top.wret, !.wret = "none",
                                   !.rv = ProtectedOk(Top.sw), !.sw = NoSW,
                                   !.mac = NoMac, !.snap = NoSession])
    /\ UNCHANGED <<session_key_enc, session_key_mac, ti, rnd_a, rnd_b, authenticated, histVars>>

---------------------------------------------------------------------------
(* write_data_chunked *)

\* while total < len(data): chunk = data[total:total + chunk_size];
\* log_message("Chunk k: n bytes at offset o"); write_data_plain_with_mac(...)
ChunkedLoop ==
    /\ Running("ch_loop")
    /\ stack' = SetTop(
          IF LoopContinues(Top.total, Top.len)
          THEN [Top EXCEPT !.pc = "wp_enter", !.wret = "ch_ret",
                           !.woff = Top.total,
                           !.wlen = ChunkLen(Top.len, Top.total, Top.chunk_size),
                           !.report = [msg |-> "chunk", off |-> Top.total]]
          ELSE [Top EXCEPT !.pc = Top.ret, !.ret = "none", !.rv = TRUE])
    /\ UNCHANGED <<sessVars, histVars>>

\* if not write_data_plain_with_mac(...): return False; total += len(chunk)
ChunkedRet ==
    /\ Running("ch_ret")
    /\ stack' = SetTop(
          IF ChunkedAborts(Top.rv)
          THEN [Top EXCEPT !.pc = Top.ret, !.ret = "none", !.rv = FALSE]
          ELSE [Top EXCEPT !.pc = "ch_loop", !.total = @ + Top.wlen])
    /\ UNCHANGED <<sessVars, histVars>>

---------------------------------------------------------------------------
(* write_data_iso_update *)

\* conn.transmit(00 A4 00 00 02 E1 04); if sw1 != 0x90: return False
IsoSelectFile ==
    /\ Running("iso_sel")
    /\ \E o \in Outcomes(IsoStatuses) :
         stack' = SetTop(
            IF o.kind = "reply"
            THEN [Top EXCEPT !.pc = IF IsoOk(o.sw) THEN "iso_loop" ELSE "iso_fail",
                             !.sw = o.sw,
                             !.tx = @ + 1, !.last = "iso_select",
                             !.pos = 0, !.chunk_size = ISO_CHUNK]
            ELSE [Raise(Top) EXCEPT !.tx = @ + 1])
    /\ UNCHANGED <<sessVars, histVars>>

\* while pos < len(data): conn.transmit(00 D6 00 off len chunk);
\* if sw1 != 0x90: log_message("ISOUpdate failed at pos"), return False
IsoChunk ==
    /\ Running("iso_loop")
    /\ IF LoopContinues(Top.pos, Top.len)
       THEN \E o \in Outcomes(IsoStatuses) :
              LET chunk == ChunkLen(Top.len, Top.pos, Top.chunk_size)
                  sent == [off |-> FallbackOffset(Top.total) + Top.pos, len |-> chunk,
                           acked |-> o.kind = "reply" /\ IsoOk(o.sw)]
              IN  stack' = SetTop(
                     IF o.kind = "reply"
                     THEN [Top EXCEPT
                             !.pc = IF IsoOk(o.sw) THEN "iso_loop" ELSE "iso_fail",
                             !.sw = o.sw,
                             !.tx = @ + 1, !.last = "iso_update",
                             !.issuedIso = Append(@, sent),
                             !.pos = IF IsoOk(o.sw) THEN @ + chunk ELSE @,
                             !.report = IF IsoOk(o.sw) THEN @
                                        ELSE [msg |-> "iso_failed", off |-> Top.pos]]
                     ELSE [Raise(Top) EXCEPT
                             !.tx = @ + 1,
                             !.issuedIso = Append(@, sent)])
       ELSE stack' = SetTop([Top EXCEPT !.pc = Top.ret, !.ret = "none", !.rv = TRUE,
                                        !.sw = NoSW, !.appSel = "none"])
    /\ UNCHANGED <<sessVars, histVars>>

\* log_message("... failed ..."); return False
IsoFail ==
    /\ Running("iso_fail")
    /\ stack' = SetTop([Top EXCEPT !.pc = Top.ret, !.ret = "none", !.rv = FALSE,
                                   !.sw = NoSW, !.appSel = "none"])
    /\ UNCHANGED <<sessVars, histVars>>

---------------------------------------------------------------------------
(* program_card *)

\* conn.transmit(FF CA 00 00 00): the UID decides which tag family it is
PcGetUid ==
    /\ Running("pc_uid")
    /\ \E o \in Outcomes(IsoStatuses), ulen \in {4, UID_LEN_424} :
         stack' = SetTop(
            IF o.kind = "reply"
            THEN (IF ~UidOk(o.sw)
                  THEN [Top EXCEPT !.pc = "pc_nocard", !.tx = @ + 1, !.last = "get_uid"]
                  ELSE IF ulen # UID_LEN_424
                  THEN [Top EXCEPT !.pc = "ns_build", !.tx = @ + 1, !.last = "get_uid"]
                  ELSE [Top EXCEPT !.pc = "sel_send", !.ret = "pc_selected",
                                   !.tx = @ + 1, !.last = "get_uid"])
            ELSE [Raise(Top) EXCEPT !.tx = @ + 1])
    /\ UNCHANGED <<sessVars, histVars>>

\* if not self.select_ndef_app(conn): raise Exception("Select failed")
PcSelected ==
    /\ Running("pc_selected")
    /\ stack' = SetTop(
          IF Top.rv
          THEN [Top EXCEPT !.pc = "auth_p1_send", !.ret = "pc_authed"]
          ELSE Raise(Top))
    /\ UNCHANGED <<sessVars, histVars>>

\* auth_success = self.ev2_authenticate(conn)
PcAuthed ==
    /\ Running("pc_authed")
    /\ stack' = SetTop([Top EXCEPT !.pc = "pc_build", !.auth_success = Top.rv,
                                   !.failed = "none"])
    /\ UNCHANGED <<sessVars, histVars>>

\* the NDEF message is built from the form; a message over 256 bytes is cut
PcBuild ==
    /\ Running("pc_build")
    /\ \E mode \in {"url", "vcard"} :
         \E n \in ContentLens(mode) :
            stack' = SetTop([Top EXCEPT !.pc = "pc_s1", !.mode = mode,
                                        !.rawLen = NdefLen(mode, n),
                                        !.len = Truncate(NdefLen(mode, n)),
                                        !.success = FALSE])
    /\ UNCHANGED <<sessVars, histVars>>

\* Strategy 1: if auth_success: one write, or the chunked write
PcStrategy1 ==
    /\ Running("pc_s1")
    /\ stack' = SetTop(
          IF Top.auth_success
          THEN (IF SingleWrite(Top.len)
                THEN [Top EXCEPT !.pc = "wp_enter", !.wret = "pc_s1_done",
                                 !.woff = 0, !.wlen = Top.len]
                ELSE [Top EXCEPT !.pc = "ch_loop", !.ret = "pc_s1_done",
                                 !.total = 0, !.chunk_size = AUTH_CHUNK])
          ELSE [Top EXCEPT !.pc = "pc_fb_check", !.s1 = "skipped"])
    /\ UNCHANGED <<sessVars, histVars>>

\* success = <the result of strategy 1>
PcS1Done ==
    /\ Running("pc_s1_done")
    /\ stack' = SetTop([Top EXCEPT !.pc = "pc_fb_check", !.success = Top.rv,
                                   !.s1 = IF Top.rv THEN "ok" ELSE "failed"])
    /\ UNCHANGED <<sessVars, histVars>>

\* Strategy 2: if not success: self.select_ndef_app(conn) ...
PcFallbackCheck ==
    /\ Running("pc_fb_check")
    /\ stack' = SetTop(
          IF NeedFallback(Top.success)
          THEN [Top EXCEPT !.pc = "sel_send", !.ret = "pc_fb_selected",
                           !.fbDecided = TRUE, !.fbRuns = @ + 1]
          ELSE [Top EXCEPT !.pc = "pc_report", !.fbDecided = TRUE])
    /\ UNCHANGED <<sessVars, histVars>>

\* ... success = self.write_data_iso_update(conn, 0, ndef_data); the
\* result of the re-select is not looked at
PcFbSelected ==
    /\ Running("pc_fb_selected")
    /\ stack' = SetTop([Top EXCEPT !.pc = "iso_sel", !.ret = "pc_fb_done", !.rv = FALSE])
    /\ UNCHANGED <<sessVars, histVars>>

PcFbDone ==
    /\ Running("pc_fb_done")
    /\ stack' = SetTop([Top EXCEPT !.pc = "pc_report", !.success = Top.rv,
                                   !.fbFailed = ~Top.rv, !.txAtFbFail = Top.tx])
    /\ UNCHANGED <<sessVars, histVars>>

\* if success: "CARD PROVISIONED!" else: raise Exception("Write failed")
PcReport ==
    /\ Running("pc_report")
    /\ stack' = SetTop(
          IF Top.success
          THEN [Top EXCEPT !.pc = "pc_disc", !.outcome = ProvisionedOutcome(Top.fbRuns > 0)]
          ELSE Raise(Top))
    /\ UNCHANGED <<sessVars, histVars>>

---------------------------------------------------------------------------
(* program_ntag_simple *)

\* len(data) of program_ntag_simple for a vCard of n bytes
NtagDataLen(n) ==
    LET rec == 3 + MIME_LEN + n
        msg == (IF rec < SHORT_RECORD_MAX THEN 2 + rec ELSE 4 + rec) + 1
        data == 4 + msg
    IN  IF (data % 4) # 0 THEN data + (4 - (data % 4)) ELSE data

\* rec = bytes([0xD2, len(mime), len(vcard_bytes)]) ...: bytes() raises on a
\* length over 255
NsBuild ==
    /\ Running("ns_build")
    /\ \E n \in ContentLens("vcard") :
         stack' = SetTop(
            IF n > SHORT_RECORD_MAX
            THEN Raise(Top)
            ELSE [Top EXCEPT !.pc = "ns_loop", !.mode = "vcard",
                             !.blocks = NtagDataLen(n) \div 4, !.pos = 0])
    /\ UNCHANGED <<sessVars, histVars>>

\* for i in range(len(data) // 4): conn.transmit(FF D6 00 block 04 ...)
NsBlock ==
    /\ Running("ns_loop")
    /\ IF Top.pos < Top.blocks
       THEN \E o \in Outcomes(IsoStatuses) :
              stack' = SetTop(
                 IF o.kind = "reply" /\ IsoOk(o.sw)
                 THEN [Top EXCEPT !.pos = @ + 1, !.tx = @ + 1, !.last = "ntag_write"]
                 ELSE [Raise(Top) EXCEPT !.tx = @ + 1])
       ELSE stack' = SetTop([Top EXCEPT !.pc = "pc_ntag_disc", !.outcome = "success"])
    /\ UNCHANGED <<sessVars, histVars>>

---------------------------------------------------------------------------
(* test_auth_only, debug_read_settings, read_ndef_file *)

\* if self.select_ndef_app(conn) and self.ev2_authenticate(conn):
TaSelected ==
    /\ Running("ta_selected")
    /\ stack' = SetTop(
          IF Top.rv
          THEN [Top EXCEPT !.pc = "auth_p1_send", !.ret = "ta_authed"]
          ELSE [Top EXCEPT !.pc = "ta_disc"])
    /\ UNCHANGED <<sessVars, histVars>>

TaAuthed ==
    /\ Running("ta_authed")
    /\ stack' = SetTop([Top EXCEPT !.pc = "ta_disc", !.failed = "none",
                                   !.outcome = IF Top.rv THEN "success" ELSE "failure"])
    /\ UNCHANGED <<sessVars, histVars>>

DrSelected ==
    /\ Running("dr_selected")
    /\ stack' = SetTop(
          IF Top.rv
          THEN [Top EXCEPT !.pc = "auth_p1_send", !.ret = "dr_authed"]
          ELSE [Top EXCEPT !.pc = "dr_disc"])
    /\ UNCHANGED <<sessVars, histVars>>

\* for f in [0x01, 0x02, 0x03]: self.get_file_settings(conn, f)
DrAuthed ==
    /\ Running("dr_authed")
    /\ stack' = SetTop(
          IF Top.rv
          THEN [Top EXCEPT !.pc = "gs_enter", !.fidx = 1]
          ELSE [Top EXCEPT !.pc = "dr_disc", !.failed = "none"])
    /\ UNCHANGED <<sessVars, histVars>>

\* if not self.select_ndef_app(conn): return
RnSelected ==
    /\ Running("rn_selected")
    /\ stack' = SetTop(
          IF Top.rv
          THEN [Top EXCEPT !.pc = "rn_send"]
          ELSE [Top EXCEPT !.pc = "done", !.outcome = "failure"])
    /\ UNCHANGED <<sessVars, histVars>>

\* send_apdu(conn, 90 AD ...): an unprotected read of the NDEF file
RnTransmit ==
    /\ Running("rn_send")
    /\ \E o \in Outcomes(NativeStatuses) :
         stack' = SetTop(
            IF o.kind = "reply"
            THEN [Top EXCEPT !.pc = "rn_sent", !.sw = o.sw, !.tx = @ + 1, !.last = "read"]
            ELSE [Raise(Top) EXCEPT !.tx = @ + 1])
    /\ UNCHANGED <<sessVars, histVars>>

\* the reply is parsed and logged
RnParse ==
    /\ Running("rn_sent")
    /\ stack' = SetTop([Top EXCEPT !.pc = "rn_disc", !.sw = NoSW,
                                   !.outcome = IF ProtectedOk(Top.sw) THEN "success" ELSE "failure"])
    /\ UNCHANGED <<sessVars, histVars>>

---------------------------------------------------------------------------
(* The program *)

Next ==
    \/ StartOp \/ Reenter \/ Return \/ Connect \/ Except \/ Disconnect
    \/ SelectTransmit \/ SelectReturn
    \/ AuthPart1Transmit \/ AuthPart1Check \/ AuthPart2Transmit \/ AuthPart2Check
    \/ AuthFail \/ AuthOk
    \/ GetSettingsEnter \/ GetSettingsTransmit \/ GetSettingsFinish \/ GetSettingsLogged
    \/ WritePlainEnter \/ WritePlainTransmit \/ WritePlainFinish
    \/ ChunkedLoop \/ ChunkedRet
    \/ IsoSelectFile \/ IsoChunk \/ IsoFail
    \/ PcGetUid \/ PcSelected \/ PcAuthed \/ PcBuild \/ PcStrategy1 \/ PcS1Done
    \/ PcFallbackCheck \/ PcFbSelected \/ PcFbDone \/ PcReport
    \/ NsBuild \/ NsBlock
    \/ TaSelected \/ TaAuthed \/ DrSelected \/ DrAuthed
    \/ RnSelected \/ RnTransmit \/ RnParse

Spec == Init /\ [][Next]_vars

---------------------------------------------------------------------------
(* The write functions on their own: write_data_chunked(conn, file_no, 0,   *)
(* data, chunk_size) and write_data_iso_update(conn, 0, data) called on an *)
(* authenticated session, for any data length and chunk size               *)

PlanPairs == ((1..MaxPlanLen) \X (1..MaxPlanChunk))
             \cup { <<AUTH_CHUNK, AUTH_CHUNK>>, <<AUTH_CHUNK + 1, AUTH_CHUNK>>,
                    <<2 * AUTH_CHUNK, AUTH_CHUNK>> }

IsoPlanLens == (1..MaxPlanLen) \cup { ISO_CHUNK, ISO_CHUNK + 1, 2 * ISO_CHUNK + 1 }

PlanFrames ==
    { [NewFrame("write_data_chunked") EXCEPT !.pc = "ch_loop", !.ret = "plan_done",
                                             !.conn = "open", !.last = "auth2",
                                             !.len = p[1], !.chunk_size = p[2]]
        : p \in PlanPairs }
    \cup
    { [NewFrame("write_data_iso_update") EXCEPT !.pc = "iso_sel", !.ret = "plan_done",
                                                !.conn = "open", !.last = "select_app",
                                                !.len = l]
        : l \in IsoPlanLens }

PlanInit ==
    /\ rnd_a = 1
    /\ rnd_b = 1
    /\ ti = 1
    /\ session_key_enc = derive_session_keys(AuthKey, 1, 1, 1)[1]
    /\ session_key_mac = derive_session_keys(AuthKey, 1, 1, 1)[2]
    /\ cmd_counter = 0
    /\ authenticated = TRUE
    /\ stack \in { <<f>> : f \in PlanFrames }
    /\ started = 1
    /\ nonces = 1
    /\ sentCount = 0
    /\ sentMacs = {}
    /\ hsConn = 1

PlanNext ==
    \/ ChunkedLoop \/ ChunkedRet
    \/ WritePlainEnter \/ WritePlainTransmit \/ WritePlainFinish
    \/ IsoSelectFile \/ IsoChunk \/ IsoFail

SpecPlan == PlanInit /\ [][PlanNext]_vars

---------------------------------------------------------------------------
(* The message builder of program_card and the record of
   program_ntag_simple, run on their own over a range of form contents *)

\* the text lengths the runs start from: the shortest texts and a few more,
\* the lengths around the short-record limit, around the largest vCard that
\* fits the file, and the long vCard
NdefContentLens(mode) ==
    IF mode = "url"
    THEN (MIN_URL_BYTES .. MIN_URL_BYTES + MaxNdefExtra)
         \cup ((READ_LEN - 8) .. (READ_LEN - 6))
         \cup ((SHORT_RECORD_MAX - 2) .. (SHORT_RECORD_MAX + 1))
    ELSE (MIN_VCARD_BYTES .. MIN_VCARD_BYTES + MaxNdefExtra)
         \cup ((SHORT_RECORD_MAX - 1) .. (SHORT_RECORD_MAX + 2))
         \cup ((FILE_CAPACITY - 6 - MIME_LEN) .. (FILE_CAPACITY - 4 - MIME_LEN))
         \cup {BIG_VCARD_BYTES}

NdefFrames ==
    { [NewFrame("program_card") EXCEPT !.pc = "nd_form", !.conn = "open", !.mode = m, !.n = n,
                                        !.url = GeneratedUrl(n)] :
         m \in {"url"}, n \in NdefContentLens("url") }
    \cup
    { [NewFrame(op) EXCEPT !.pc = "nd_form", !.conn = "open", !.mode = "vcard", !.n = n] :
         op \in {"program_card", "program_ntag_simple"}, n \in NdefContentLens("vcard") }

NdefInit ==
    /\ session_key_enc = NoKey
    /\ session_key_mac = NoKey
    /\ ti = 0
    /\ cmd_counter = 0
    /\ rnd_a = 0
    /\ rnd_b = 0
    /\ authenticated = FALSE
    /\ stack \in { <<f>> : f \in NdefFrames }
    /\ started = 1
    /\ nonces = 0
    /\ sentCount = 0
    /\ sentMacs = {}
    /\ hsConn = 0

\* if mode == "url": ... ndef_rec = bytes([...]) + url_bytes
EncodeUri ==
    /\ Running("nd_form")
    /\ Top.op = "program_card" /\ Top.mode = "url"
    /\ LET url_without_prefix == StripHttps(Top.url)
       IN  stack' = SetTop([Top EXCEPT !.pc = "nd_rec",
                                       !.rec = UriRecord(TextBytes(url_without_prefix)),
                                       !.pcode = URI_PREFIX_CODE,
                                       !.body = url_without_prefix])
    /\ UNCHANGED <<sessVars, histVars>>

\* else: ... ndef_rec = bytes([...]) + mime + vcard_bytes
EncodeVcard ==
    /\ Running("nd_form")
    /\ Top.op = "program_card" /\ Top.mode = "vcard"
    /\ stack' = SetTop([Top EXCEPT !.pc = "nd_rec", !.rec = VcardRecord(Top.n)])
    /\ UNCHANGED <<sessVars, histVars>>

\* program_ntag_simple: rec = bytes([0xD2, len(mime), len(vcard_bytes)]) + ...
EncodeNtag ==
    /\ Running("nd_form")
    /\ Top.op = "program_ntag_simple"
    /\ stack' = SetTop(
          IF NtagRecord(Top.n) = NoRecord
          THEN Raise(Top)
          ELSE [Top EXCEPT !.pc = "nd_done", !.rec = NtagRecord(Top.n)])
    /\ UNCHANGED <<sessVars, histVars>>

\* ndef_data = struct.pack('>H', len(ndef_rec)) + ndef_rec
PrefixLength ==
    /\ Running("nd_rec")
    /\ stack' = SetTop([Top EXCEPT !.pc = "nd_prefixed",
                                   !.prefix = PackH(RecordBytes(Top.rec)),
                                   !.rawLen = 2 + RecordBytes(Top.rec)])
    /\ UNCHANGED <<sessVars, histVars>>

\* if len(ndef_data) > 256: ndef_data = ndef_data[:256]; the message that
\* goes to the write strategies
TruncateToFile ==
    /\ Running("nd_prefixed")
    /\ stack' = SetTop([Top EXCEPT !.pc = "nd_done", !.len = Truncate(Top.rawLen),
                                   !.written = Truncate(Top.rawLen)])
    /\ UNCHANGED <<sessVars, histVars>>

\* read_ndef_file on the tag that now holds the message: the 90 AD command
\* asks for READ_LEN bytes of the file, and the reply is parsed as a URI record
ReadBackUri ==
    /\ Running("nd_done")
    /\ Top.op = "program_card" /\ Top.mode = "url"
    /\ stack' = SetTop([Top EXCEPT !.pc = "nd_read",
                                   !.full_url = ParseUri(Min(READ_LEN, Top.written), Top.prefix,
                                                         Top.rec, Top.pcode, Top.body)])
    /\ UNCHANGED <<sessVars, histVars>>

NdefNext ==
    \/ EncodeUri \/ EncodeVcard \/ EncodeNtag \/ PrefixLength \/ TruncateToFile
    \/ ReadBackUri

SpecNdef == NdefInit /\ [][NdefNext]_vars

---------------------------------------------------------------------------
(* One run of program_card, or of one write function, from its first line   *)
(* to its return, with no other handler dispatched in between.  A step that *)
(* can be taken is taken: the code has no wait other than for the reply of  *)
(* the tag, which comes or raises.                                          *)

TermInit ==
    \/ PlanInit
    \/ /\ session_key_enc = NoKey
       /\ session_key_mac = NoKey
       /\ ti = 0
       /\ cmd_counter = 0
       /\ rnd_a = 0
       /\ rnd_b = 0
       /\ authenticated = FALSE
       /\ stack = << NewFrame("program_card") >>
       /\ started = 1
       /\ nonces = 0
       /\ sentCount = 0
       /\ sentMacs = {}
       /\ hsConn = 0

TermNext ==
    \/ Connect \/ Except \/ Disconnect
    \/ SelectTransmit \/ SelectReturn
    \/ AuthPart1Transmit \/ AuthPart1Check \/ AuthPart2Transmit \/ AuthPart2Check
    \/ AuthFail \/ AuthOk
    \/ WritePlainEnter \/ WritePlainTransmit \/ WritePlainFinish
    \/ ChunkedLoop \/ ChunkedRet
    \/ IsoSelectFile \/ IsoChunk \/ IsoFail
    \/ PcGetUid \/ PcSelected \/ PcAuthed \/ PcBuild \/ PcStrategy1 \/ PcS1Done
    \/ PcFallbackCheck \/ PcFbSelected \/ PcFbDone \/ PcReport
    \/ NsBuild \/ NsBlock

SpecTerm == TermInit /\ [][TermNext]_vars /\ WF_vars(TermNext)

---------------------------------------------------------------------------
(* The crypto utilities on their own: crc32_ntag, the MAC truncation of     *)
(* calculate_mac_for_cmd and calculate_write_mac, and the padding and IV of *)
(* encrypt_data_for_write.  A Python int has no width, so the CRC register  *)
(* is a sequence of bits, least significant first, of whatever length the   *)
(* operations give it.                                                      *)

\* the bits of one byte, least significant first
ByteBits(b) == [i \in 1..8 |-> (b \div (2 ^ (i - 1))) % 2]
\* the bits of a 32-bit constant written as four bytes, most significant first
WordBits(w) == ByteBits(w[4]) \o ByteBits(w[3]) \o ByteBits(w[2]) \o ByteBits(w[1])
BitAt(bits, i) == IF i <= Len(bits) THEN bits[i] ELSE 0
\* a ^ b
XorBits(a, b) ==
    [i \in 1..(IF Len(a) > Len(b) THEN Len(a) ELSE Len(b)) |-> (BitAt(a, i) + BitAt(b, i)) % 2]
\* a >> 1
ShiftRight(a) == IF a = <<>> THEN <<>> ELSE Tail(a)
\* a & 1
LowBit(a) == BitAt(a, 1)

\* 0xEDB88320 and 0xFFFFFFFF
CRC_POLY == << 237, 184, 131, 32 >>
CRC_ONES == << 255, 255, 255, 255 >>

\* a register step that forgets the polynomial
CrcShift_NoPoly(crc) == ShiftRight(crc)
\* if crc & 1: crc = (crc >> 1) ^ 0xEDB88320 else: crc >>= 1
CrcShift(crc) ==
    IF LowBit(crc) = 1 THEN XorBits(ShiftRight(crc), WordBits(CRC_POLY)) ELSE ShiftRight(crc)

\* struct.pack('<I', v): four bytes, least significant first; struct.error
\* (no bytes) when v does not fit in 32 bits
PackLittleI(bits) ==
    IF \E i \in 33..Len(bits) : bits[i] = 1
    THEN <<>>
    ELSE [k \in 1..4 |->
            BitAt(bits, 8 * k - 7) + 2 * BitAt(bits, 8 * k - 6) + 4 * BitAt(bits, 8 * k - 5)
            + 8 * BitAt(bits, 8 * k - 4) + 16 * BitAt(bits, 8 * k - 3)
            + 32 * BitAt(bits, 8 * k - 2) + 64 * BitAt(bits, 8 * k - 1)
            + 128 * BitAt(bits, 8 * k)]

RECURSIVE CrcBits(_, _)
\* for _ in range(8): ...
CrcBits(crc, k) == IF k = 0 THEN crc ELSE CrcBits(CrcShift(crc), k - 1)
RECURSIVE CrcBytes(_, _)
\* for byte in data: crc ^= byte; ...
CrcBytes(crc, data) ==
    IF data = <<>> THEN crc
    ELSE LET next == CrcBits(XorBits(crc, ByteBits(Head(data))), 8)
         IN  IF Len(next) >= 0 THEN CrcBytes(next, Tail(data)) ELSE next
\* crc32_ntag(data) as one value
crc32_ntag(data) == PackLittleI(XorBits(CrcBytes(WordBits(CRC_ONES), data), WordBits(CRC_ONES)))

RECURSIVE PyRange(_, _, _)
\* range(start, stop, step)
PyRange(start, stop, step) ==
    IF start >= stop THEN <<>> ELSE <<start>> \o PyRange(start + step, stop, step)

\* a truncation that takes the bytes at the even indices
TruncateMac_Even(full_mac) ==
    LET r == PyRange(0, AES_BLOCK, 2) IN [k \in 1..Len(r) |-> full_mac[r[k] + 1]]
\* calculate_mac_for_cmd: bytes([full_mac[i] for i in range(1, 16, 2)])
TruncateMac(full_mac) ==
    LET r == PyRange(1, AES_BLOCK, 2) IN [k \in 1..Len(r) |-> full_mac[r[k] + 1]]
\* calculate_write_mac: the same expression
TruncateWriteMac(full_mac) ==
    LET r == PyRange(1, AES_BLOCK, 2) IN [k \in 1..Len(r) |-> full_mac[r[k] + 1]]

\* Python's bytes(k) and bytes([0x00] * k): k zero bytes, none for k <= 0
Zeros(k) == [i \in 1..k |-> 0]

\* a padding that adds nothing to a length that is already whole blocks
PadLen_NoFullBlock(len) == (AES_BLOCK - (len % AES_BLOCK)) % AES_BLOCK
\* pad_len = (16 - (len(data_with_crc) % 16)) % 16; if pad_len == 0: pad_len = 16
PadLen(len) ==
    LET pad_len == (AES_BLOCK - (len % AES_BLOCK)) % AES_BLOCK
    IN  IF pad_len = 0 THEN AES_BLOCK ELSE pad_len

\* iv = ti + ctr_bytes + bytes(16 - len(ti) - 2)
WriteIv(tiBytes, counter) ==
    tiBytes \o PackLittleH(counter) \o Zeros(AES_BLOCK - Len(tiBytes) - 2)

\* the byte strings the functions are run on
CrcInputs ==
    { <<>>, <<0>>, <<97>>, <<97, 98, 99>>, <<49, 50, 51, 52, 53, 54, 55, 56, 57>> }
CmacValues ==
    { [i \in 1..AES_BLOCK |-> (a * i + b) % 256] : a \in 1..MaxMacSlope, b \in 0..MaxMacShift }
Plaintexts == { [i \in 1..n |-> (7 * i) % 256] : n \in 0..MaxPlain }
TiValues == { <<1, 2, 3, 4>>, <<255, 0, 128, 7>> }
WriteCounters == { 0, 1, 258, COUNTER_MOD - 1 }

CryptoFrame(op, pc) ==
    [ op |-> op, pc |-> pc, data |-> <<>>, pos |-> 0, bit |-> 0, crc |-> <<>>, out |-> <<>>,
      full_mac |-> <<>>, tiBytes |-> <<>>, counter |-> 0,
      padded |-> <<>>, iv |-> <<>>, retlen |-> 0 ]

CryptoFrames ==
    { [CryptoFrame("crc32_ntag", "crc_start") EXCEPT !.data = d] : d \in CrcInputs }
    \cup
    { [CryptoFrame(op, "mac_full") EXCEPT !.full_mac = m] :
         op \in {"calculate_mac_for_cmd", "calculate_write_mac"}, m \in CmacValues }
    \cup
    { [CryptoFrame("encrypt_data_for_write", "enc_start") EXCEPT
          !.data = p, !.tiBytes = t, !.counter = c] :
         p \in Plaintexts, t \in TiValues, c \in WriteCounters }

CryptoInit ==
    /\ session_key_enc = NoKey
    /\ session_key_mac = NoKey
    /\ ti = 0
    /\ cmd_counter = 0
    /\ rnd_a = 0
    /\ rnd_b = 0
    /\ authenticated = FALSE
    /\ stack \in { <<f>> : f \in CryptoFrames }
    /\ started = 1
    /\ nonces = 0
    /\ sentCount = 0
    /\ sentMacs = {}
    /\ hsConn = 0

\* crc = 0xFFFFFFFF
CrcStart ==
    /\ Running("crc_start")
    /\ stack' = SetTop([Top EXCEPT !.pc = "crc_byte", !.crc = WordBits(CRC_ONES), !.pos = 0])
    /\ UNCHANGED <<sessVars, histVars>>

\* for byte in data: crc ^= byte
CrcByte ==
    /\ Running("crc_byte")
    /\ Top.pos < Len(Top.data)
    /\ stack' = SetTop([Top EXCEPT !.pc = "crc_bit", !.bit = 0,
                                   !.crc = XorBits(@, ByteBits(Top.data[Top.pos + 1]))])
    /\ UNCHANGED <<sessVars, histVars>>

\* one round of "for _ in range(8)"
CrcBit ==
    /\ Running("crc_bit")
    /\ stack' = SetTop(
          IF Top.bit + 1 < 8
          THEN [Top EXCEPT !.crc = CrcShift(@), !.bit = @ + 1]
          ELSE [Top EXCEPT !.crc = CrcShift(@), !.bit = 0, !.pos = @ + 1, !.pc = "crc_byte"])
    /\ UNCHANGED <<sessVars, histVars>>

\* return struct.pack('<I', crc ^ 0xFFFFFFFF)
CrcReturn ==
    /\ Running("crc_byte")
    /\ Top.pos = Len(Top.data)
    /\ stack' = SetTop([Top EXCEPT !.pc = "crc_done",
                                   !.out = PackLittleI(XorBits(Top.crc, WordBits(CRC_ONES)))])
    /\ UNCHANGED <<sessVars, histVars>>

\* calculate_mac_for_cmd: return bytes([full_mac[i] for i in range(1, 16, 2)])
MacTruncate ==
    /\ Running("mac_full")
    /\ Top.op = "calculate_mac_for_cmd"
    /\ stack' = SetTop([Top EXCEPT !.pc = "mac_done", !.out = TruncateMac(Top.full_mac)])
    /\ UNCHANGED <<sessVars, histVars>>

\* calculate_write_mac: return bytes([full_mac[i] for i in range(1, 16, 2)])
WriteMacTruncate ==
    /\ Running("mac_full")
    /\ Top.op = "calculate_write_mac"
    /\ stack' = SetTop([Top EXCEPT !.pc = "mac_done", !.out = TruncateWriteMac(Top.full_mac)])
    /\ UNCHANGED <<sessVars, histVars>>

\* crc = crc32_ntag(plaintext); data_with_crc = plaintext + crc; padded_data =
\* data_with_crc + bytes([0x00] * pad_len)
EncryptPad ==
    /\ Running("enc_start")
    /\ LET data_with_crc == Top.data \o crc32_ntag(Top.data)
       IN  stack' = SetTop([Top EXCEPT !.pc = "enc_padded",
                                       !.out = crc32_ntag(Top.data),
                                       !.padded = data_with_crc \o Zeros(PadLen(Len(data_with_crc)))])
    /\ UNCHANGED <<sessVars, histVars>>

\* iv = ...; return cipher.encrypt(padded_data), len(padded_data): CBC gives
\* as many bytes as it is given
EncryptReturn ==
    /\ Running("enc_padded")
    /\ stack' = SetTop([Top EXCEPT !.pc = "enc_done",
                                   !.iv = WriteIv(Top.tiBytes, Top.counter),
                                   !.retlen = Len(Top.padded)])
    /\ UNCHANGED <<sessVars, histVars>>

CryptoNext ==
    \/ CrcStart \/ CrcByte \/ CrcBit \/ CrcReturn
    \/ MacTruncate \/ WriteMacTruncate
    \/ EncryptPad \/ EncryptReturn

SpecCrypto == CryptoInit /\ [][CryptoNext]_vars

---------------------------------------------------------------------------
(* Properties *)

Frames == { stack[i] : i \in 1..Len(stack) }

\* the running handler took a step of its own (no dispatch, no return)
TopStep == Len(stack) > 0 /\ Len(stack') = Len(stack) /\ stack' # stack
TopAfter == stack'[Len(stack')]

RECURSIVE AckedBytes(_)
\* the bytes of the chunks the tag acknowledged
AckedBytes(issued) ==
    IF issued = <<>> THEN 0
    ELSE (IF issued[1].acked THEN issued[1].len ELSE 0) + AckedBytes(Tail(issued))

\* C1: after N MAC-protected commands have been sent on an authenticated
\* session, cmd_counter equals N (mod 2^16), also when a command failed at
\* the transport level; looked at whenever no protected command stands
\* between its transmission and its counter increment.
C1_CounterEqualsSent ==
    (authenticated /\ \A f \in Frames : f.pc \notin {"wp_sent", "gs_sent"})
        => cmd_counter % COUNTER_MOD = sentCount % COUNTER_MOD

\* C2: a MAC-protected command goes on the wire only when a handshake was
\* completed on the sending handler's connection after the most recent
\* application select; and a call of get_file_settings or
\* write_data_plain_with_mac on an unauthenticated session transmits nothing
\* and leaves the counter alone.
C2_Step ==
    TopStep =>
      /\ (Top.pc \in {"wp_send", "gs_send"}) => hsConn = Len(stack)
      /\ (Top.pc \in {"wp_enter", "gs_enter"} /\ ~authenticated)
            => (TopAfter.tx = Top.tx /\ cmd_counter' = cmd_counter
                /\ TopAfter.pc \notin {"wp_send", "gs_send"})
C2_NoStaleProtectedCommand == [][C2_Step]_vars

\* C3: right after conn.disconnect(), and right after an ev2_authenticate
\* that returned False, the programmer holds no session keys and no TI and
\* is not marked authenticated.
C3_NoKeysAfterCloseOrAuthFailure ==
    \A f \in Frames :
       (f.conn = "closed" \/ (f.pc \in {"pc_authed", "ta_authed", "dr_authed"} /\ ~f.rv))
          => (session_key_enc = NoKey /\ session_key_mac = NoKey /\ ti = 0 /\ ~authenticated)

\* C4: authenticated is set (and session keys are installed) only by the
\* last step of an ev2_authenticate call whose part 1 followed an application
\* select and was answered 91 AF and whose part 2 was then answered 91 00;
\* part 2 is sent only after part 1 was answered 91 AF; every authentication
\* starts from an application select.
HandshakeDone(f) ==
    /\ Len(f.hs) = 2
    /\ f.hs[1] = [cmd |-> "auth1", sw |-> <<SW1_NATIVE, SW2_MORE>>, after |-> "select_app"]
    /\ f.hs[2] = [cmd |-> "auth2", sw |-> <<SW1_NATIVE, SW2_OK>>, after |-> "auth1"]
C4_Step ==
    /\ (authenticated' /\ (~authenticated \/ session_key_mac' # session_key_mac
                           \/ session_key_enc' # session_key_enc \/ ti' # ti))
          => (TopStep /\ Top.pc = "auth_p2_sent" /\ TopAfter.pc = "auth_ok"
              /\ HandshakeDone(Top))
    /\ (session_key_mac' # session_key_mac \/ session_key_enc' # session_key_enc \/ ti' # ti)
          => authenticated'
    /\ \A i \in 1..Len(stack') :
          LET hs == stack'[i].hs
          IN  /\ Len(hs) >= 1 => (hs[1].cmd = "auth1" /\ hs[1].after = "select_app")
              /\ Len(hs) >= 2 => (hs[1].sw = <<SW1_NATIVE, SW2_MORE>> /\ hs[2].cmd = "auth2"
                                  /\ hs[2].after = "auth1")
C4_HandshakeOrder == [][C4_Step]_vars
C4_Witness == Running("auth_ok") /\ authenticated /\ HandshakeDone(Top)

\* C5: a message longer than the 256-byte file is rejected: program_card
\* sends no write command (0x8D or update binary) for it.
C5_OversizeRejected ==
    \A f \in Frames :
       f.rawLen > FILE_CAPACITY => (f.issuedAuth = <<>> /\ f.issuedIso = <<>>)

\* C6: in one program_card run the fallback runs at most once, and it runs
\* exactly when authentication failed or the authenticated write returned
\* failure; once the fallback has failed the run sends no further command
\* and ends in failure.
C6_FallbackOnce ==
    \A f \in Frames :
       /\ f.fbRuns <= 1
       /\ ~f.fbDecided => f.fbRuns = 0
       /\ f.fbDecided => (f.fbRuns = 1 <=> (~f.auth_success \/ f.s1 = "failed"))
       /\ f.fbFailed => /\ f.fbRuns = 1
                        /\ f.tx = f.txAtFbFail
                        /\ f.pc \in {"pc_report", "except", "done"}
                        /\ f.outcome # "success"
                        /\ f.pc = "done" => f.outcome = "failure"
C6_Witness ==
    \E f \in Frames : f.pc = "done" /\ f.fbFailed /\ f.s1 = "failed" /\ f.outcome = "failure"

\* C7: when every chunk is accepted, the (offset, length) pairs issued by
\* write_data_chunked (any chunk size) and by write_data_iso_update (54)
\* partition [0, L) in increasing order: they start at 0, each chunk but the
\* last has the full chunk size and is followed at offset + length, and the
\* last ends at L; 33 bytes in chunks of 32 are sent as (32, 1).
Partitions(issued, len, chunk_size) ==
    /\ Len(issued) >= 1
    /\ issued[1].off = 0
    /\ \A k \in 1..(Len(issued) - 1) :
          issued[k].len = chunk_size /\ issued[k + 1].off = issued[k].off + issued[k].len
    /\ LET z == issued[Len(issued)]
       IN  z.len >= 1 /\ z.len <= chunk_size /\ z.off + z.len = len
ChunkedDone(f) ==
    /\ f.rv
    /\ \/ f.op = "write_data_chunked" /\ f.pc = "plan_done"
       \/ f.op = "program_card" /\ f.pc = "pc_s1_done" /\ ~SingleWrite(f.len)
IsoDone(f) ==
    /\ f.rv
    /\ \/ f.op = "write_data_iso_update" /\ f.pc = "plan_done"
       \/ f.op = "program_card" /\ f.pc = "pc_fb_done"
C7_WritePlanCoverage ==
    \A f \in Frames :
       /\ ChunkedDone(f) => Partitions(f.issuedAuth, f.len, f.chunk_size)
       /\ IsoDone(f) => Partitions(f.issuedIso, f.len, ISO_CHUNK)
       /\ (ChunkedDone(f) /\ f.len = AUTH_CHUNK + 1 /\ f.chunk_size = AUTH_CHUNK)
             => (Len(f.issuedAuth) = 2 /\ f.issuedAuth[1].len = AUTH_CHUNK
                 /\ f.issuedAuth[2].len = 1)
C7_Witness ==
    \E f \in Frames :
       /\ ChunkedDone(f) /\ f.len = AUTH_CHUNK + 1 /\ f.chunk_size = AUTH_CHUNK
       /\ Len(f.issuedAuth) = 2

\* C8: after a successful authentication a message of at most 32 bytes is
\* sent as one protected write at offset 0, a longer one as 32-byte chunks
\* at increasing offsets, each sent after the one before was acknowledged
\* and with the counter of the one before plus 1.
C8_SequentialChunks ==
    \A f \in Frames :
       f.op = "program_card" =>
          /\ \A k \in 2..Len(f.issuedAuth) :
                /\ f.issuedAuth[k - 1].acked
                /\ f.issuedAuth[k - 1].len = AUTH_CHUNK
                /\ f.issuedAuth[k].off = f.issuedAuth[k - 1].off + AUTH_CHUNK
                /\ f.issuedAuth[k].ctr = (f.issuedAuth[k - 1].ctr + 1) % COUNTER_MOD
          /\ (f.issuedAuth # <<>>) => (f.auth_success /\ f.issuedAuth[1].off = 0)
          /\ (f.pc = "pc_s1_done" /\ f.rv) =>
                IF SingleWrite(f.len)
                THEN Len(f.issuedAuth) = 1 /\ f.issuedAuth[1].len = f.len
                ELSE Partitions(f.issuedAuth, f.len, AUTH_CHUNK)

\* C9: once a chunk of write_data_chunked or write_data_iso_update is
\* rejected no later chunk of that plan is sent, and the diagnostic line of
\* the failed chunk names the offset reached by the acknowledged chunks.
LastRejected(issued) == issued # <<>> /\ ~issued[Len(issued)].acked
InMacWindow(f) == f.pc \in {"wp_send", "wp_sent", "gs_send", "gs_sent"}
C10_NoInterferenceInMacWindow ==
    \A i \in 1..Len(stack) :
       InMacWindow(stack[i]) =>
          /\ stack[i].snap = Session
          /\ \A j \in (i + 1)..Len(stack) : stack[j].tx = 0

\* ev2_authenticate handed its caller the result False
AuthFailedReturn(f) == f.pc \in {"pc_authed", "ta_authed", "dr_authed"} /\ ~f.rv
\* the step of ev2_authenticate that accepts the reply to part 2
AuthSucceeds == TopStep /\ Top.pc = "auth_p2_sent" /\ TopAfter.pc = "auth_ok"

\* C11: cmd_counter is 0 right after every successful ev2_authenticate, and
\* no other step (select, failed authentication, protected command, fallback
\* write, disconnect) decreases it or sets it back to 0.
C11_Step ==
    /\ AuthSucceeds => cmd_counter' = 0
    /\ (cmd_counter' < cmd_counter \/ (cmd_counter' = 0 /\ cmd_counter # 0)) => AuthSucceeds
C11_CounterResetOnlyByAuth == [][C11_Step]_vars
C11_Witness ==
    /\ Running("auth_ok") /\ cmd_counter = 0
    /\ \E m \in sentMacs : m.key # session_key_mac /\ m.res # "lost"

\* C12: a protected command dispatched while authenticated leaves
\* cmd_counter at its value before the call plus 1, whatever status the tag
\* replies, and its MAC is computed over the value before the call.
C12_Step ==
    (TopStep /\ Top.pc \in {"wp_sent", "gs_sent"})
       => (cmd_counter' = Top.snap.ctr + 1 /\ Top.mac.ctr = Top.snap.ctr % COUNTER_MOD)
C12_IncrementByOne == [][C12_Step]_vars

\* C13: after ev2_authenticate returned False the programmer holds no
\* nonces, no TI and no session keys.
C13_FailedAuthLeavesNothing ==
    \A f \in Frames :
       AuthFailedReturn(f) =>
          /\ rnd_a = 0 /\ rnd_b = 0 /\ ti = 0
          /\ session_key_enc = NoKey /\ session_key_mac = NoKey

\* C14: the result ev2_authenticate hands its caller after a rejected
\* part 2 differs from the one it hands over after a rejected part 1.
C14_FailureNamesItsPart ==
    \A f \in Frames :
       AuthFailedReturn(f) =>
          /\ f.failed = "part2" => f.rv # Part1FailureResult
          /\ f.failed = "part1" => f.rv # Part2FailureResult

\* C15: when program_card reports success for a message written through
\* the fallback, the reported outcome differs from the outcome of a
\* MAC-protected write.
C15_DegradedWriteReported ==
    \A f \in Frames :
       (f.op = "program_card" /\ f.success /\ f.fbRuns > 0 /\ f.outcome # "none")
          => f.outcome # ProvisionedOutcome(FALSE)

\* the running handler puts a protected command on the wire
ProtectedTransmit == TopStep /\ Top.pc \in {"wp_send", "gs_send"}

\* C17: once the tag has rejected a MAC-protected write, no protected
\* command is transmitted under the session keys of that write: the next
\* one, if any, carries the keys of a new handshake.
C17_Step ==
    ProtectedTransmit =>
       ~ \E m \in sentMacs :
            /\ m.cmd = CMD_WRITE /\ m.res = "rejected"
            /\ m.key = Top.mac.key /\ m.ti = Top.mac.ti
C17_NoProtectedCommandAfterRejectedWrite == [][C17_Step]_vars

\* C18: no step of get_file_settings or write_data_plain_with_mac changes
\* the session keys, ti or authenticated, whatever the tag replies; the
\* only session field they change is cmd_counter, after the reply.
C18_Step ==
    (TopStep /\ Top.pc \in {"gs_enter", "gs_send", "gs_sent", "gs_ok",
                            "wp_enter", "wp_send", "wp_sent"})
       => /\ UNCHANGED <<session_key_enc, session_key_mac, ti, authenticated, rnd_a, rnd_b>>
          /\ cmd_counter' # cmd_counter => Top.pc \in {"gs_sent", "wp_sent"}
C18_RejectionKeepsSession == [][C18_Step]_vars
C18_Witness ==
    /\ Running("ch_ret") /\ ~Top.rv /\ LastRejected(Top.issuedAuth)
    /\ authenticated /\ session_key_mac # NoKey /\ session_key_mac = Top.issuedAuth[1].key

\* C19: no two protected commands are transmitted whose MACs were computed
\* with the same session (keys and TI) over the same counter value, and no
\* handler sends a chunk of the authenticated path a second time.
C19_Step ==
    /\ ProtectedTransmit =>
          ~ \E m \in sentMacs :
               m.key = Top.mac.key /\ m.ti = Top.mac.ti /\ m.ctr = Top.mac.ctr
    /\ \A i \in 1..Len(stack') :
          \A j, k \in 1..Len(stack'[i].issuedAuth) :
             j < k => stack'[i].issuedAuth[j].off # stack'[i].issuedAuth[k].off
C19_NoCounterReuse == [][C19_Step]_vars

\* the flag bits of a record's first byte
FlagMB(rec) == (rec.flags \div 128) % 2 = 1
FlagME(rec) == (rec.flags \div 64) % 2 = 1
FlagSR(rec) == (rec.flags \div 16) % 2 = 1

\* C16: every message program_card hands to the write strategies has at
\* most 256 bytes, its 2-byte big-endian prefix equals the number of bytes
\* that follow it, and these are one complete record whose payload-length
\* field equals the number of payload bytes written.
C16_PersistedMessageWellFormed ==
    \A f \in Frames :
       (f.op = "program_card" /\ f.pc = "nd_done") =>
          /\ f.written <= FILE_CAPACITY
          /\ BigEndian(f.prefix) = f.written - 2
          /\ f.written - 2 = RecordBytes(f.rec)
          /\ BigEndian(f.rec.plen) = f.written - 2 - (2 + Len(f.rec.plen) + Len(f.rec.type))

\* C20: each record the program encodes has MB and ME set, SR set iff the
\* payload has at most 255 bytes, a 1-byte length field when short and a
\* 4-byte one when long, and a length field equal to the payload length; a
\* vCard of 255 bytes is encoded in the short form and one of 256 bytes in
\* the long form, by program_card and by program_ntag_simple.
Encoded(f) == f.pc \in {"nd_rec", "nd_prefixed", "nd_done", "except"}
C20_ShortRecordFlag ==
    \A f \in Frames :
       Encoded(f) =>
          /\ f.rec # NoRecord =>
                /\ FlagMB(f.rec) /\ FlagME(f.rec)
                /\ FlagSR(f.rec) <=> f.rec.payload <= SHORT_RECORD_MAX
                /\ Len(f.rec.plen) = IF FlagSR(f.rec) THEN 1 ELSE 4
                /\ BigEndian(f.rec.plen) = f.rec.payload
                /\ f.rec.tlen = Len(f.rec.type)
          /\ (f.mode = "vcard" /\ f.n = SHORT_RECORD_MAX)
                => (f.rec # NoRecord /\ FlagSR(f.rec))
          /\ (f.mode = "vcard" /\ f.n = SHORT_RECORD_MAX + 1)
                => (f.rec # NoRecord /\ ~FlagSR(f.rec))

\* C21: a URI that starts with "https://" comes back unchanged when it is
\* encoded as program_card encodes it and the bytes are decoded as
\* read_ndef_file decodes them.
C21_UriRoundTrip ==
    \A f \in Frames :
       (f.op = "program_card" /\ f.mode = "url" /\ f.pc = "nd_read") => f.full_url = f.url

\* C22: the application select, the ISO file select and every
\* update-binary are taken as successful only when the status is exactly
\* 90 00; every other status, 90 with a non-zero SW2 included, is a failure.
ExactOk == <<SW1_ISO, SW2_OK>>
C22_Step ==
    TopStep =>
       /\ (Top.pc = "sel_sent" /\ TopAfter.rv) => Top.sw = ExactOk
       /\ (Top.pc = "iso_sel" /\ TopAfter.pc = "iso_loop") => TopAfter.sw = ExactOk
       /\ (Top.pc = "iso_loop" /\ TopAfter.pc = "iso_loop") => TopAfter.sw = ExactOk
C22_ExactStatusOnly == [][C22_Step]_vars

\* C23: every protected command transmitted while authenticated carries a
\* MAC computed over exactly command code, counter (2 bytes, little-endian),
\* TI and the command's parameter bytes, where the counter is cmd_counter at
\* the moment of sending, TI and key are those of the most recent successful
\* handshake, and the parameters are the ones in the APDU.
ApduParams(f) ==
    IF f.pc = "wp_send"
    THEN <<NDEF_FILE_NO, f.woff, f.wlen, PlainSlice(f.woff, f.wlen)>>
    ELSE <<f.fidx>>
ApduCmd(f) == IF f.pc = "wp_send" THEN CMD_WRITE ELSE CMD_GET_SETTINGS
C23_Step ==
    (ProtectedTransmit /\ authenticated) =>
       /\ Top.mac.input = <<ApduCmd(Top)>> \o PackLittleH(cmd_counter % COUNTER_MOD)
                              \o <<ti>> \o ApduParams(Top)
       /\ Top.mac.key = session_key_mac
C23_MacInput == [][C23_Step]_vars

Reverse(seq) == [i \in 1..Len(seq) |-> seq[Len(seq) + 1 - i]]
RefPolyBits == Reverse(WordBits(<< 4, 193, 29, 183 >>))
RefShift(reg, b) ==
    LET shifted == Tail(reg) \o <<0>>
    IN  IF (reg[1] + b) % 2 = 1 THEN XorBits(shifted, RefPolyBits) ELSE shifted
RECURSIVE RefFeed(_, _)
RefFeed(reg, bits) ==
    IF bits = <<>> THEN reg
    ELSE LET next == RefShift(reg, Head(bits))
         IN  IF Len(next) >= 0 THEN RefFeed(next, Tail(bits)) ELSE next
RECURSIVE MessageBits(_)
MessageBits(data) == IF data = <<>> THEN <<>> ELSE ByteBits(Head(data)) \o MessageBits(Tail(data))
\* the register read backwards is the register itself, least significant
\* bit first
Crc32Reference(data) ==
    LET reg == RefFeed([i \in 1..32 |-> 1], MessageBits(data))
    IN  PackLittleI([i \in 1..32 |-> 1 - reg[i]])
NineDigits == << 49, 50, 51, 52, 53, 54, 55, 56, 57 >>
AllAcked(issued) == \A k \in 1..Len(issued) : issued[k].acked
Provisioned(f) == f.op = "program_card" /\ f.fbDecided /\ f.outcome = "success"
CompletedBy(f, message) ==
    \/ /\ f.fbRuns = 0 /\ f.s1 = "ok"
       /\ Partitions(f.issuedAuth, message, AUTH_CHUNK) /\ AllAcked(f.issuedAuth)
    \/ /\ f.fbRuns = 1
       /\ Partitions(f.issuedIso, message, ISO_CHUNK) /\ AllAcked(f.issuedIso)
C27_SuccessOnlyFromOneFullStrategy ==
    \A f \in Frames : Provisioned(f) => CompletedBy(f, f.rawLen)

\* C28: for every message length L, chunk size C >= 1 and sequence of tag
\* replies, write_data_chunked and write_data_iso_update return after at
\* most ceil(L / C) write commands, and program_card always ends with a
\* success or a failure outcome.
CeilDiv(a, b) == (a + b - 1) \div b
WritesBounded ==
    \A f \in Frames :
       /\ Len(f.issuedAuth)
             <= CeilDiv(f.len, IF f.op = "write_data_chunked" THEN f.chunk_size ELSE AUTH_CHUNK)
       /\ Len(f.issuedIso) <= CeilDiv(f.len, ISO_CHUNK)
Returned ==
    /\ Top.pc \in {"plan_done", "done"}
    /\ (Top.op = "program_card") => Top.outcome \in {"success", "failure"}
C28_Termination == []WritesBounded /\ <>Returned
C28_Witness ==
    \E f \in Frames :
       /\ f.op = "program_card" /\ f.pc = "done" /\ f.outcome = "success"
       /\ f.fbRuns = 1 /\ f.s1 = "failed" /\ Len(f.issuedAuth) >= 2 /\ Len(f.issuedIso) >= 2

\* C29: a fallback that runs after an authenticated chunked write failed at
\* a chunk k > 1 does not resume at the failed offset: its update-binary
\* commands start at offset 0 and cover the whole message, so a successful
\* fallback leaves the tag holding the complete message.
FailedAfterFirstChunk(f) ==
    f.op = "program_card" /\ f.s1 = "failed" /\ Len(f.issuedAuth) >= 2
C29_FallbackFromStart ==
    \A f \in Frames :
       FailedAfterFirstChunk(f) =>
          /\ f.issuedIso # <<>> => f.issuedIso[1].off = 0
          /\ (f.pc = "pc_fb_done" /\ f.rv) =>
                (Partitions(f.issuedIso, f.rawLen, ISO_CHUNK) /\ AllAcked(f.issuedIso))

\* C30: no write command (90 8D or update-binary) is transmitted in a
\* provisioning attempt while its most recent application select has failed:
\* a failed initial select ends program_card before any authenticate or
\* write command, and a failed re-select at the start of the fallback
\* prevents the fallback's update-binary commands.
WriteTransmit ==
    /\ TopStep
    /\ Top.op = "program_card"
    /\ \/ Len(TopAfter.issuedAuth) > Len(Top.issuedAuth)
       \/ Len(TopAfter.issuedIso) > Len(Top.issuedIso)
C30_Step ==
    /\ WriteTransmit => Top.appSel = "ok"
    /\ (TopStep /\ Top.pc = "pc_selected" /\ ~Top.rv) => TopAfter.pc = "except"
C30_NoWriteAfterFailedSelect == [][C30_Step]_vars

\* C31: every operation that opens a reader connection (test_auth_only,
\* debug_read_settings, read_ndef_file, program_card) disconnects it before
\* it returns, on every path: success, select failure, authentication
\* failure, write failure and transport exception.
C31_DisconnectOnEveryPath ==
    \A f \in Frames : (f.op \in Ops /\ f.pc = "done") => f.conn # "open"

\* C32: select_ndef_app always leaves authenticated = False, whatever status
\* the tag returns, and changes nothing else of the session (the keys, ti,
\* cmd_counter, rnd_a and rnd_b stay as they are); so after the fallback's
\* re-select the provisioning attempt issues no further protected command.
InSelect(f) == f.pc \in {"sel_send", "sel_sent"}
C32_Step ==
    TopStep =>
       /\ InSelect(Top) =>
             UNCHANGED <<session_key_enc, session_key_mac, ti, cmd_counter, rnd_a, rnd_b>>
       /\ Top.pc = "sel_sent" => (authenticated' = FALSE /\ ~InSelect(TopAfter))
       /\ (Top.op = "program_card" /\ Top.fbRuns >= 1 /\ ~InSelect(Top))
             => (~ProtectedTransmit /\ TopAfter.issuedAuth = Top.issuedAuth)
C32_SelectFrameEffect == [][C32_Step]_vars
C32_Witness ==
    /\ Len(stack) = 1
    /\ Top.op = "program_card" /\ Top.pc = "pc_fb_selected"
    /\ Top.s1 = "failed" /\ Top.appSel = "failed"
    /\ ~authenticated /\ session_key_mac # NoKey /\ cmd_counter = 2

\* C33: every protected write (90 8D) the program transmits carries the
\* message bytes unencrypted: the data field is the plaintext slice
\* data[offset : offset + len] of the NDEF message and the MAC is the one
\* calculate_mac_for_cmd computes over that plaintext; no write path applies
\* encrypt_data_for_write or calculate_write_mac, so session_key_enc has no
\* part in anything transmitted.
C33_Step ==
    (TopStep /\ Top.pc = "wp_send") =>
       LET m == Top.mac
           data == m.params[4]
       IN  /\ data = PlainSlice(Top.woff, Top.wlen)
           /\ data.off + data.len <= Top.len
           /\ m.cmd = CMD_WRITE
           /\ m.params = <<NDEF_FILE_NO, Top.woff, Top.wlen, data>>
           /\ m.input = <<CMD_WRITE>> \o PackLittleH(m.ctr) \o <<m.ti>> \o m.params
           /\ m.key.kind = "mac"
C33_PlaintextWrites == [][C33_Step]_vars
C33_Witness ==
    \E f \in Frames :
       /\ f.op = "program_card" /\ f.pc = "wp_sent"
       /\ f.woff = AUTH_CHUNK
       /\ f.mac.params[4] = PlainSlice(AUTH_CHUNK, f.len - AUTH_CHUNK)
       /\ session_key_enc # NoKey

====
